---- MODULE Spec2Model ----
(***************************************************************************)
(* Model of the order-engine: the price-time priority OrderBook            *)
(* (src/src/engine/OrderBook.cpp) and the MatchingEngine command pipeline  *)
(* (src/src/engine/MatchingEngine.cpp).                                    *)
(*                                                                         *)
(* Price, Quantity and OrderId are uint64_t in the source.  The model      *)
(* draws them from small ranges far below 2^64, so no arithmetic wraps.    *)
(* A std::list<Order>::iterator is modelled by the id of the order stored  *)
(* in the node it points to; std::map is a function whose domain is the    *)
(* key set, iterated in comparator order.  Timestamps are left out: no     *)
(* decision in the code reads them.                                        *)
(***************************************************************************)
EXTENDS Integers, Sequences, FiniteSets, TLC

\* ---------------------------------------------------------------- bounds
MaxId == 3
MaxPrice == 2
MaxQty == 2
\* the commands producers submit to the engine, and the commands waiting in its queue
MaxCmdId == 2
MaxCmdPrice == 1
MaxCmdQty == 1
MaxQueue == 2

OrderIds == 1..MaxId
Prices == 1..MaxPrice
Quantities == 0..MaxQty
Sides == {"Buy", "Sell"}

VARIABLES
    bids,          \* std::map<Price, Level, std::greater<Price>>
    asks,          \* std::map<Price, Level, std::less<Price>>
    orderLookup,   \* std::unordered_map<OrderId, OrderLocation>
    commandQueue,  \* std::queue<Command>, guarded by queueMutex
    running,       \* std::atomic<bool>
    joinable,      \* engineThread.joinable()
    onTrade,       \* TRUE when a trade callback is registered
    onBookUpdate,  \* TRUE when a book-update callback is registered
    cpc,           \* the thread that calls start() and stop(): "ready" or "joining"
    wpc,           \* where the worker is in run()
    tpc,           \* the transport thread: "idle", or "reading" inside Server::onOpen
    cmd,           \* run(): the command just dequeued
    runTrades,     \* run(): trades, what addOrder returned for it
    bookChanged,   \* run(): the bookChanged flag
    fired,         \* the callbacks invoked so far for the command being processed
    dupAdd,        \* TRUE when that command was an Add whose id was in the Order Index
    missCancel,    \* TRUE when that command was a Cancel of an id that did not rest
    touched,       \* TRUE when the book call made for that command changed the book
    applications,  \* the number of book calls made for that command
    owed,          \* the callbacks run() decided to invoke for it, not yet invoked
    delivered,     \* the trade lists handed to the trade callback for it
    tickets,       \* for each queued command: one plus the number of commands that
                   \* entered the queue before it and are still waiting there
    cmdTicket,     \* the ticket the dequeued command held when it was taken
    afterStop      \* the commands that entered the queue since stop() posted its Stop

bookVars == <<bids, asks, orderLookup>>
\* what the worker keeps about the command it is processing
cmdVars == <<cmd, runTrades, bookChanged, fired, dupAdd, missCancel, touched,
             applications, owed, delivered, cmdTicket>>
engineVars == <<commandQueue, running, joinable, onTrade, onBookUpdate, cpc, wpc, tpc,
                cmd, runTrades, bookChanged, fired, dupAdd, missCancel, touched,
                applications, owed, delivered, tickets, cmdTicket, afterStop>>
vars == <<bids, asks, orderLookup, commandQueue, running, joinable, onTrade,
          onBookUpdate, cpc, wpc, tpc, cmd, runTrades, bookChanged, fired, dupAdd,
          missCancel, touched, applications, owed, delivered, tickets, cmdTicket,
          afterStop>>

\* ---------------------------------------------------------------- types.hpp
\* Order::Order(id, side, price, qty)
Order(id, side, price, qty) ==
    [id |-> id, side |-> side, price |-> price,
     initialQuantity |-> qty, remainingQuantity |-> qty]

isFilled(o) == o.remainingQuantity = 0

\* maker and taker ids stored the wrong way round
TradeSwapped(price, quantity, maker, taker) ==
    [price |-> price, quantity |-> quantity,
     makerOrderId |-> taker, takerOrderId |-> maker]

Trade(price, quantity, maker, taker) ==
    [price |-> price, quantity |-> quantity,
     makerOrderId |-> maker, takerOrderId |-> taker]

LevelInfo(price, quantity) == [price |-> price, quantity |-> quantity]

\* ---------------------------------------------------------------- OrderBook.hpp
\* Level(), the value std::map::operator[] creates for a missing key
Level == [price |-> 0, totalVolume |-> 0, orders |-> <<>>]

\* the locator records the opposite side
OrderLocationOtherSide(side, price, iterator) ==
    [side |-> IF side = "Buy" THEN "Sell" ELSE "Buy", price |-> price, iterator |-> iterator]

OrderLocation(side, price, iterator) ==
    [side |-> side, price |-> price, iterator |-> iterator]

EmptyMap == <<>>

\* ---------------------------------------------------------------- containers
Min(a, b) == IF a <= b THEN a ELSE b

\* both sides declared with std::less
BeforeAscending(cmp, p, q) == p < q

\* the comparator of a book side: std::greater for bids, std::less for asks
Before(cmp, p, q) == IF cmp = "greater" THEN p > q ELSE p < q

\* map.begin(): <<key>> of the first entry in comparator order, <<>> for end()
MapBegin(book, cmp) ==
    IF DOMAIN book = {} THEN <<>>
    ELSE <<CHOOSE p \in DOMAIN book :
              \A q \in DOMAIN book : q = p \/ Before(cmp, p, q)>>

\* ++it, and the iterator map.erase(it) returns
MapNext(book, cmp, p) ==
    LET later == {q \in DOMAIN book : Before(cmp, p, q)}
    IN  IF later = {} THEN <<>>
        ELSE <<CHOOSE q \in later : \A r \in later : r = q \/ Before(cmp, q, r)>>

MapErase(book, p) == [q \in DOMAIN book \ {p} |-> book[q]]

\* map[key] = value, inserting the key when absent
MapPut(book, p, v) == [q \in DOMAIN book \cup {p} |-> IF q = p THEN v ELSE book[q]]

\* list.erase(position)
RemoveAt(s, i) == [j \in 1..(Len(s) - 1) |-> IF j < i THEN s[j] ELSE s[j + 1]]

\* position of the node an iterator points to (0 when no node of the list matches)
NodeIndex(orders, iterator) ==
    IF \E i \in 1..Len(orders) : orders[i].id = iterator
    THEN CHOOSE i \in 1..Len(orders) :
            /\ orders[i].id = iterator
            /\ \A j \in 1..(i - 1) : orders[j].id # iterator
    ELSE 0

\* erases the head of the list instead of the node the iterator points to
ListErasePopFront(orders, iterator) == Tail(orders)

\* list.erase(iterator)
ListErase(orders, iterator) ==
    IF NodeIndex(orders, iterator) = 0 THEN orders
    ELSE RemoveAt(orders, NodeIndex(orders, iterator))

\* ---------------------------------------------------------------- OrderBook.cpp
\* the price check with strict comparisons
PriceMatchStrict(incoming, level) ==
    IF incoming.side = "Buy" THEN incoming.price > level.price
    ELSE incoming.price < level.price

\* the price check of matchAgainstBook
PriceMatch(incoming, level) ==
    IF incoming.side = "Buy" THEN incoming.price >= level.price
    ELSE incoming.price <= level.price

\* the index entry of a filled maker is left behind
LookupKeep(lookup, id) == lookup

\* orderLookup.erase(bookOrder.id) when a maker is filled
LookupErase(lookup, id) == [k \in DOMAIN lookup \ {id} |-> lookup[k]]

\* the inner while loop of matchAgainstBook: walk one level's FIFO from position i
RECURSIVE MatchLevel(_, _, _, _, _)
MatchLevel(incoming, level, i, lookup, trades) ==
    IF i <= Len(level.orders) /\ ~isFilled(incoming)
    THEN LET bookOrder == level.orders[i]
             tradeQty == Min(incoming.remainingQuantity, bookOrder.remainingQuantity)
             trade == Trade(level.price, tradeQty, bookOrder.id, incoming.id)
             inc2 == [incoming EXCEPT !.remainingQuantity = @ - tradeQty]
             bo2 == [bookOrder EXCEPT !.remainingQuantity = @ - tradeQty]
             lvl2 == [level EXCEPT !.totalVolume = @ - tradeQty, !.orders[i] = bo2]
         IN  IF isFilled(bo2)
             THEN MatchLevel(inc2, [lvl2 EXCEPT !.orders = RemoveAt(@, i)], i,
                             LookupErase(lookup, bo2.id), Append(trades, trade))
             ELSE MatchLevel(inc2, lvl2, i + 1, lookup, Append(trades, trade))
    ELSE [incoming |-> incoming, level |-> level, lookup |-> lookup, trades |-> trades]

\* the outer while loop of matchAgainstBook, it = <<price>> or <<>> for book.end();
\* LevelDone is the end of one pass: r is what the inner loop left of the level at it
RECURSIVE MatchLoop(_, _, _, _, _, _)
RECURSIVE LevelDone(_, _, _, _)
MatchLoop(incoming, book, cmp, it, lookup, trades) ==
    IF it # <<>> /\ ~isFilled(incoming)
    THEN IF ~PriceMatch(incoming, book[it[1]])
         THEN [incoming |-> incoming, book |-> book, lookup |-> lookup, trades |-> trades]
         ELSE LevelDone(MatchLevel(incoming, book[it[1]], 1, lookup, trades),
                        book, cmp, it)
    ELSE [incoming |-> incoming, book |-> book, lookup |-> lookup, trades |-> trades]

LevelDone(r, book, cmp, it) ==
    IF r.level.orders = <<>>
    THEN MatchLoop(r.incoming, MapErase(book, it[1]), cmp,
                   MapNext(book, cmp, it[1]), r.lookup, r.trades)
    ELSE MatchLoop(r.incoming, [book EXCEPT ![it[1]] = r.level], cmp,
                   MapNext(book, cmp, it[1]), r.lookup, r.trades)

matchAgainstBook(incoming, book, cmp, lookup, trades) ==
    MatchLoop(incoming, book, cmp, MapBegin(book, cmp), lookup, trades)

\* the book after matchAgainstBook walked the asks (r) and left the bids alone
AsksMatched(r, b) ==
    [incoming |-> r.incoming, bids |-> b, asks |-> r.book,
     lookup |-> r.lookup, trades |-> r.trades]

\* the book after matchAgainstBook walked the bids (r) and left the asks alone
BidsMatched(r, a) ==
    [incoming |-> r.incoming, bids |-> r.book, asks |-> a,
     lookup |-> r.lookup, trades |-> r.trades]

\* OrderBook::match: a Buy walks the asks, a Sell walks the bids
match(incoming, b, a, lookup, trades) ==
    IF incoming.side = "Buy"
    THEN AsksMatched(matchAgainstBook(incoming, a, "less", lookup, trades), b)
    ELSE BidsMatched(matchAgainstBook(incoming, b, "greater", lookup, trades), a)

\* rests the order with its initial quantity instead of what matching left of it
addToBookWhole(order, book, lookup) ==
    LET whole == [order EXCEPT !.remainingQuantity = order.initialQuantity]
        level0 == IF order.price \in DOMAIN book THEN book[order.price] ELSE Level
        level1 == IF level0.totalVolume = 0
                  THEN [level0 EXCEPT !.price = order.price] ELSE level0
        level2 == [level1 EXCEPT !.orders = Append(@, whole),
                                 !.totalVolume = @ + whole.remainingQuantity]
    IN  [book |-> MapPut(book, order.price, level2),
         lookup |-> IF order.id \in DOMAIN lookup THEN lookup
                    ELSE MapPut(lookup, order.id,
                                OrderLocation(order.side, order.price, order.id))]

\* OrderBook::addToBook; unordered_map::insert keeps an existing entry
addToBook(order, book, lookup) ==
    LET level0 == IF order.price \in DOMAIN book THEN book[order.price] ELSE Level
        level1 == IF level0.totalVolume = 0
                  THEN [level0 EXCEPT !.price = order.price] ELSE level0
        level2 == [level1 EXCEPT !.orders = Append(@, order),
                                 !.totalVolume = @ + order.remainingQuantity]
    IN  [book |-> MapPut(book, order.price, level2),
         lookup |-> IF order.id \in DOMAIN lookup THEN lookup
                    ELSE MapPut(lookup, order.id,
                                OrderLocation(order.side, order.price, order.id))]

\* the duplicate-id test left out
IsDuplicateMissing(order, lookup) == FALSE

\* the duplicate-id test at the top of OrderBook::addOrder
IsDuplicate(order, lookup) == order.id \in DOMAIN lookup

\* addOrder after match, m being what match left: a residual rests on its own side
RestResidual(m, r) ==
    IF isFilled(m.incoming)
    THEN [trades |-> m.trades, bids |-> m.bids, asks |-> m.asks, lookup |-> m.lookup]
    ELSE IF m.incoming.side = "Buy"
         THEN [trades |-> m.trades, bids |-> r.book, asks |-> m.asks, lookup |-> r.lookup]
         ELSE [trades |-> m.trades, bids |-> m.bids, asks |-> r.book, lookup |-> r.lookup]

Matched(m) ==
    RestResidual(m, addToBook(m.incoming,
                              IF m.incoming.side = "Buy" THEN m.bids ELSE m.asks,
                              m.lookup))

\* OrderBook::addOrder(order): the trades returned and the book it leaves
addOrder(order, b, a, lookup) ==
    IF IsDuplicate(order, lookup)
    THEN [trades |-> <<>>, bids |-> b, asks |-> a, lookup |-> lookup]
    ELSE Matched(match(order, b, a, lookup, <<>>))

\* the cancel branch without the debit of totalVolume
CancelInSideNoDebit(book, loc) ==
    IF loc.price \in DOMAIN book
    THEN LET level == book[loc.price]
             level2 == [level EXCEPT !.orders = ListErase(@, loc.iterator)]
         IN  IF level2.orders = <<>> THEN MapErase(book, loc.price)
             ELSE [book EXCEPT ![loc.price] = level2]
    ELSE book

\* the cancel branch that keeps a level whose FIFO became empty
CancelInSideKeepLevel(book, loc) ==
    IF loc.price \in DOMAIN book
    THEN LET level == book[loc.price]
             node == level.orders[NodeIndex(level.orders, loc.iterator)]
         IN  [book EXCEPT ![loc.price] =
                 [level EXCEPT !.totalVolume = @ - node.remainingQuantity,
                               !.orders = ListErase(@, loc.iterator)]]
    ELSE book

\* the branch of cancelOrder for one side: debit, erase the node, drop an empty level
CancelInSide(book, loc) ==
    IF loc.price \in DOMAIN book
    THEN LET level == book[loc.price]
             node == level.orders[NodeIndex(level.orders, loc.iterator)]
             level2 == [level EXCEPT
                          !.totalVolume = @ - node.remainingQuantity,
                          !.orders = ListErase(@, loc.iterator)]
         IN  IF level2.orders = <<>> THEN MapErase(book, loc.price)
             ELSE [book EXCEPT ![loc.price] = level2]
    ELSE book

\* OrderBook::cancelOrder(orderId): the value returned and the book it leaves
cancelOrder(orderId, b, a, lookup) ==
    IF orderId \notin DOMAIN lookup
    THEN [ret |-> FALSE, bids |-> b, asks |-> a, lookup |-> lookup]
    ELSE LET loc == lookup[orderId]
         IN  IF loc.side = "Buy"
             THEN [ret |-> TRUE, bids |-> CancelInSide(b, loc), asks |-> a,
                   lookup |-> MapErase(lookup, orderId)]
             ELSE [ret |-> TRUE, bids |-> b, asks |-> CancelInSide(a, loc),
                   lookup |-> MapErase(lookup, orderId)]

\* getBids / getAsks: the levels in iteration order as (price, totalVolume)
RECURSIVE LevelInfos(_, _, _)
LevelInfos(book, cmp, it) ==
    IF it = <<>> THEN <<>>
    ELSE <<LevelInfo(it[1], book[it[1]].totalVolume)>>
         \o LevelInfos(book, cmp, MapNext(book, cmp, it[1]))

getBids == LevelInfos(bids, "greater", MapBegin(bids, "greater"))
getAsks == LevelInfos(asks, "less", MapBegin(asks, "less"))

\* ---------------------------------------------------------------- MatchingEngine.hpp
\* struct Command; a std::optional is <<>> (nullopt) or <<value>>
AddCommand(order) == [type |-> "Add", order |-> <<order>>, orderId |-> <<>>]
CancelCommand(orderId) == [type |-> "Cancel", order |-> <<>>, orderId |-> <<orderId>>]
StopCommand == [type |-> "Stop", order |-> <<>>, orderId |-> <<>>]

\* ---------------------------------------------------------------- construction
\* OrderBook::OrderBook()
BookInit ==
    /\ bids = EmptyMap
    /\ asks = EmptyMap
    /\ orderLookup = EmptyMap

\* MatchingEngine::MatchingEngine(): running(false), an empty queue, no thread, no
\* callbacks; the locals of run() hold nothing yet
EngineInit ==
    /\ commandQueue = <<>>
    /\ running = FALSE
    /\ joinable = FALSE
    /\ onTrade = FALSE
    /\ onBookUpdate = FALSE
    /\ cpc = "ready"
    /\ wpc = "none"
    /\ tpc = "idle"
    /\ cmd = StopCommand
    /\ runTrades = <<>>
    /\ bookChanged = FALSE
    /\ fired = <<>>
    /\ dupAdd = FALSE
    /\ missCancel = FALSE
    /\ touched = FALSE
    /\ applications = 0
    /\ owed = {}
    /\ delivered = <<>>
    /\ tickets = <<>>
    /\ cmdTicket = 0
    /\ afterStop = 0

Init == BookInit /\ EngineInit

\* ---------------------------------------------------------------- calls on a fresh OrderBook
\* the members of the OrderBook after a call that left r
BookBecomes(r) ==
    /\ bids' = r.bids
    /\ asks' = r.asks
    /\ orderLookup' = r.lookup

AddOrder ==
    /\ \E id \in OrderIds, side \in Sides, price \in Prices, qty \in Quantities :
          BookBecomes(addOrder(Order(id, side, price, qty), bids, asks, orderLookup))
    /\ UNCHANGED engineVars

CancelOrder ==
    /\ \E id \in OrderIds : BookBecomes(cancelOrder(id, bids, asks, orderLookup))
    /\ UNCHANGED engineVars

Next == AddOrder \/ CancelOrder

Spec == Init /\ [][Next]_vars

\* ---------------------------------------------------------------- vocabulary of the properties
\* every order a caller can pass to addOrder
Incoming ==
    {Order(id, side, price, qty) :
        id \in OrderIds, side \in Sides, price \in Prices, qty \in Quantities}

\* the resting orders of one side in priority order: best price first, FIFO inside a level
RECURSIVE SideOrders(_, _)
SideOrders(book, best) ==
    IF DOMAIN book = {} THEN <<>>
    ELSE LET p == CHOOSE x \in DOMAIN book :
                     \A y \in DOMAIN book :
                         IF best = "highest" THEN x >= y ELSE x <= y
         IN  book[p].orders \o SideOrders([q \in DOMAIN book \ {p} |-> book[q]], best)

Opposite(o, b, a) == IF o.side = "Buy" THEN SideOrders(a, "lowest") ELSE SideOrders(b, "highest")
OwnBook(side, b, a) == IF side = "Buy" THEN b ELSE a
OppBook(side, b, a) == IF side = "Buy" THEN a ELSE b

RECURSIVE SumRemaining(_)
SumRemaining(orders) ==
    IF orders = <<>> THEN 0
    ELSE orders[1].remainingQuantity + SumRemaining(Tail(orders))

RECURSIVE SumQuantity(_)
SumQuantity(trades) ==
    IF trades = <<>> THEN 0 ELSE trades[1].quantity + SumQuantity(Tail(trades))

\* every place (side, price, position) where an order with this id is held
PlacesIn(side, book, id) ==
    UNION {{[side |-> side, price |-> p, pos |-> i, order |-> book[p].orders[i]] :
               i \in {j \in 1..Len(book[p].orders) : book[p].orders[j].id = id}} :
           p \in DOMAIN book}

Places(id, b, a) == PlacesIn("Buy", b, id) \cup PlacesIn("Sell", a, id)

IdsIn(book) ==
    UNION {{book[p].orders[i].id : i \in 1..Len(book[p].orders)} : p \in DOMAIN book}

RestingIds(b, a) == IdsIn(b) \cup IdsIn(a)

Crosses(o, price) == IF o.side = "Buy" THEN o.price >= price ELSE o.price <= price

LevelOrders(book, p) == IF p \in DOMAIN book THEN book[p].orders ELSE <<>>

\* ---------------------------------------------------------------- MatchingEngine.cpp
CmdIds == 1..MaxCmdId
CmdPrices == 1..MaxCmdPrice
CmdQuantities == 0..MaxCmdQty

\* a queue that puts a new entry in front of the waiting ones
PushFront(queue, c) == <<c>> \o queue

\* commandQueue.push(c)
Push(queue, c) == Append(queue, c)

\* the ticket of a command entering the queue
NewTicket == Len(tickets) + 1

\* the tickets of the commands left in the queue once its front has been taken
TicketsLeft == [i \in 1..(Len(tickets) - 1) |-> tickets[i + 1] - 1]

\* setTradeCallback / setBookUpdateCallback, registered before start() as main() does
SetTradeCallback ==
    /\ wpc = "none" /\ ~onTrade
    /\ onTrade' = TRUE
    /\ UNCHANGED <<bookVars, commandQueue, running, joinable, onBookUpdate, cpc, wpc, tpc,
                   cmdVars, tickets, afterStop>>

SetBookUpdateCallback ==
    /\ wpc = "none" /\ ~onBookUpdate
    /\ onBookUpdate' = TRUE
    /\ UNCHANGED <<bookVars, commandQueue, running, joinable, onTrade, cpc, wpc, tpc,
                   cmdVars, tickets, afterStop>>

\* MatchingEngine::start(); assigning to a joinable std::thread ends the process, so
\* the call is taken only when no worker is joinable
Start ==
    /\ cpc = "ready" /\ ~joinable
    /\ running' = TRUE
    /\ joinable' = TRUE
    /\ wpc' = "loop"
    /\ UNCHANGED <<bookVars, commandQueue, onTrade, onBookUpdate, cpc, tpc,
                   cmdVars, tickets, afterStop>>

\* a stop() that posts its Stop command whatever the running flag says
StopCallAlways(queue, r) == [commandQueue |-> Push(queue, StopCommand), cpc |-> "joining"]

\* MatchingEngine::stop() up to the join: nothing unless running, else the Stop command
\* is pushed and the caller goes on to join the worker
StopCall(queue, r) ==
    IF r THEN [commandQueue |-> Push(queue, StopCommand), cpc |-> "joining"]
    ELSE [commandQueue |-> queue, cpc |-> "ready"]

\* the caller of stop() once the first half of the call has left c
StopCalled(c) ==
    /\ commandQueue' = c.commandQueue
    /\ cpc' = c.cpc
    /\ tickets' = IF c.commandQueue = commandQueue THEN tickets
                  ELSE Push(tickets, NewTicket)
    /\ afterStop' = IF c.cpc = "joining" THEN 0 ELSE afterStop

StopPost ==
    /\ cpc = "ready"
    /\ StopCalled(StopCall(commandQueue, running))
    /\ UNCHANGED <<bookVars, running, joinable, onTrade, onBookUpdate, wpc, tpc, cmdVars>>

\* MatchingEngine::stop() from the join on: join() returns once run() has returned
StopJoin ==
    /\ cpc = "joining"
    /\ joinable => wpc = "done"
    /\ joinable' = FALSE
    /\ running' = FALSE
    /\ cpc' = "ready"
    /\ afterStop' = 0
    /\ UNCHANGED <<bookVars, commandQueue, onTrade, onBookUpdate, wpc, tpc,
                   cmdVars, tickets>>

\* a producer's push, and the count of the commands that came after a posted Stop
Enqueued(c) ==
    /\ commandQueue' = Push(commandQueue, c)
    /\ tickets' = Push(tickets, NewTicket)
    /\ afterStop' = IF cpc = "joining" THEN afterStop + 1 ELSE afterStop

\* MatchingEngine::addOrder(order), called by a producer
EnqueueAdd ==
    /\ Len(commandQueue) < MaxQueue
    /\ \E id \in CmdIds, side \in Sides, price \in CmdPrices, qty \in CmdQuantities :
          Enqueued(AddCommand(Order(id, side, price, qty)))
    /\ UNCHANGED <<bookVars, running, joinable, onTrade, onBookUpdate, cpc, wpc, tpc,
                   cmdVars>>

\* MatchingEngine::cancelOrder(orderId), called by a producer
EnqueueCancel ==
    /\ Len(commandQueue) < MaxQueue
    /\ \E id \in CmdIds : Enqueued(CancelCommand(id))
    /\ UNCHANGED <<bookVars, running, joinable, onTrade, onBookUpdate, cpc, wpc, tpc,
                   cmdVars>>

\* run(): the test of while (running)
WorkerLoop ==
    /\ wpc = "loop"
    /\ wpc' = IF running THEN "wait" ELSE "done"
    /\ UNCHANGED <<bookVars, commandQueue, running, joinable, onTrade, onBookUpdate, cpc,
                   tpc, cmdVars, tickets, afterStop>>

\* a worker that leaves its loop on whatever command it takes
AfterDequeueLeave(c) == "done"

\* run(): a Stop command leaves the loop, any other command goes on to the book
AfterDequeue(c) == IF c.type = "Stop" THEN "done" ELSE "apply"

\* run(): wait for a non-empty queue, take its front
WorkerDequeue ==
    /\ wpc = "wait"
    /\ commandQueue # <<>>
    /\ cmd' = Head(commandQueue)
    /\ commandQueue' = Tail(commandQueue)
    /\ wpc' = AfterDequeue(Head(commandQueue))
    /\ cmdTicket' = Head(tickets)
    /\ tickets' = TicketsLeft
    /\ runTrades' = <<>>
    /\ bookChanged' = FALSE
    /\ fired' = <<>>
    /\ dupAdd' = FALSE
    /\ missCancel' = FALSE
    /\ touched' = FALSE
    /\ applications' = 0
    /\ owed' = {}
    /\ delivered' = <<>>
    /\ UNCHANGED <<bookVars, running, joinable, onTrade, onBookUpdate, cpc, tpc, afterStop>>

\* run() never invokes the book-update callback
AfterApplyNoBook(tr, changed) == IF tr # <<>> /\ onTrade THEN "onTrade" ELSE "loop"

\* run() invokes the trade callback whether or not trades came back
AfterApplyAnyTrades(tr, changed) ==
    IF onTrade /\ fired = <<>> THEN "onTrade"
    ELSE IF changed /\ onBookUpdate THEN "onBookUpdate"
    ELSE "loop"

\* where run() goes after the book call: the trade callback, the book-update callback
\* or the top of the loop
AfterApply(tr, changed) ==
    IF tr # <<>> /\ onTrade THEN "onTrade"
    ELSE IF changed /\ onBookUpdate THEN "onBookUpdate"
    ELSE "loop"

\* the callbacks run() goes on to invoke after the book call
Owed(tr, changed) ==
    (IF tr # <<>> /\ onTrade THEN {"trade"} ELSE {})
    \cup (IF changed /\ onBookUpdate THEN {"book"} ELSE {})

\* the bookChanged flag of an Add: trades came back, or the command's own copy of the
\* order (addOrder takes its argument by value) is not filled
AddChanged(tr, order) == tr # <<>> \/ ~isFilled(order)

\* the Cancel branch setting bookChanged whatever cancelOrder returned
CancelChangedAlways(ret) == TRUE

\* the bookChanged flag of a Cancel: what cancelOrder returned
CancelChanged(ret) == ret

\* whether a book call that left r changed bids, asks or the Order Index
BookDiffers(r) == r.bids # bids \/ r.asks # asks \/ r.lookup # orderLookup

\* the Add branch once orderBook.addOrder(*cmd.order) has returned r
AddApplied(r) ==
    /\ BookBecomes(r)
    /\ runTrades' = r.trades
    /\ bookChanged' = AddChanged(r.trades, cmd.order[1])
    /\ wpc' = AfterApply(r.trades, AddChanged(r.trades, cmd.order[1]))
    /\ owed' = Owed(r.trades, AddChanged(r.trades, cmd.order[1]))
    /\ touched' = BookDiffers(r)

\* the Cancel branch once orderBook.cancelOrder(*cmd.orderId) has returned r
CancelApplied(r) ==
    /\ BookBecomes(r)
    /\ bookChanged' = CancelChanged(r.ret)
    /\ wpc' = AfterApply(<<>>, CancelChanged(r.ret))
    /\ owed' = Owed(<<>>, CancelChanged(r.ret))
    /\ touched' = BookDiffers(r)

\* run(): the Add branch
WorkerAdd ==
    /\ wpc = "apply"
    /\ cmd.type = "Add" /\ cmd.order # <<>>
    /\ AddApplied(addOrder(cmd.order[1], bids, asks, orderLookup))
    /\ dupAdd' = IsDuplicate(cmd.order[1], orderLookup)
    /\ applications' = applications + 1
    /\ UNCHANGED <<commandQueue, running, joinable, onTrade, onBookUpdate, cpc, tpc, cmd,
                   fired, missCancel, delivered, tickets, cmdTicket, afterStop>>

\* run(): the Cancel branch
WorkerCancel ==
    /\ wpc = "apply"
    /\ cmd.type = "Cancel" /\ cmd.orderId # <<>>
    /\ CancelApplied(cancelOrder(cmd.orderId[1], bids, asks, orderLookup))
    /\ missCancel' = (cmd.orderId[1] \notin RestingIds(bids, asks))
    /\ applications' = applications + 1
    /\ UNCHANGED <<commandQueue, running, joinable, onTrade, onBookUpdate, cpc, tpc, cmd,
                   runTrades, fired, dupAdd, delivered, tickets, cmdTicket, afterStop>>

\* run(): onTrade(trades) is called and returns
WorkerOnTrade ==
    /\ wpc = "onTrade"
    /\ fired' = Append(fired, "trade")
    /\ delivered' = Append(delivered, runTrades)
    /\ owed' = owed \ {"trade"}
    /\ wpc' = AfterApply(<<>>, bookChanged)
    /\ UNCHANGED <<bookVars, commandQueue, running, joinable, onTrade, onBookUpdate, cpc,
                   tpc, cmd, runTrades, bookChanged, dupAdd, missCancel, touched,
                   applications, tickets, cmdTicket, afterStop>>

\* run(): onBookUpdate() is called and returns
WorkerOnBookUpdate ==
    /\ wpc = "onBookUpdate"
    /\ fired' = Append(fired, "book")
    /\ owed' = owed \ {"book"}
    /\ wpc' = "loop"
    /\ UNCHANGED <<bookVars, commandQueue, running, joinable, onTrade, onBookUpdate, cpc,
                   tpc, cmd, runTrades, bookChanged, dupAdd, missCancel, touched,
                   applications, delivered, tickets, cmdTicket, afterStop>>

EngineNext ==
    \/ SetTradeCallback
    \/ SetBookUpdateCallback
    \/ Start
    \/ StopPost
    \/ StopJoin
    \/ EnqueueAdd
    \/ EnqueueCancel
    \/ WorkerLoop
    \/ WorkerDequeue
    \/ WorkerAdd
    \/ WorkerCancel
    \/ WorkerOnTrade
    \/ WorkerOnBookUpdate

EngineSpec == Init /\ [][EngineNext]_vars

\* main(): both callbacks are registered before engine.start()
MainInit ==
    /\ BookInit
    /\ commandQueue = <<>>
    /\ running = FALSE
    /\ joinable = FALSE
    /\ onTrade = TRUE
    /\ onBookUpdate = TRUE
    /\ cpc = "ready"
    /\ wpc = "none"
    /\ tpc = "idle"
    /\ cmd = StopCommand
    /\ runTrades = <<>>
    /\ bookChanged = FALSE
    /\ fired = <<>>
    /\ dupAdd = FALSE
    /\ missCancel = FALSE
    /\ touched = FALSE
    /\ applications = 0
    /\ owed = {}
    /\ delivered = <<>>
    /\ tickets = <<>>
    /\ cmdTicket = 0
    /\ afterStop = 0

\* one step of the worker thread, wherever it is in run()
Worker ==
    \/ WorkerLoop
    \/ WorkerDequeue
    \/ WorkerAdd
    \/ WorkerCancel
    \/ WorkerOnTrade
    \/ WorkerOnBookUpdate

\* the engine once its callbacks are registered
MainNext ==
    \/ Start
    \/ StopPost
    \/ StopJoin
    \/ EnqueueAdd
    \/ EnqueueCancel
    \/ Worker

\* the worker thread takes a step whenever it can and callbacks return; join() returns
\* once the worker has left run()
WorkerFairness == WF_vars(Worker) /\ WF_vars(StopJoin)

EngineLiveSpec == MainInit /\ [][MainNext]_vars /\ WorkerFairness

\* ---------------------------------------------------------------- Server.cpp
\* Server::onOpen on the transport thread: engine.getOrderBook() and the start of the
\* getBids() / getAsks() walk; main() runs the server between engine.start() and
\* engine.stop()
OnOpenBegin ==
    /\ tpc = "idle"
    /\ running /\ cpc = "ready"
    /\ tpc' = "reading"
    /\ UNCHANGED <<bookVars, commandQueue, running, joinable, onTrade, onBookUpdate, cpc,
                   wpc, cmdVars, tickets, afterStop>>

\* Server::onOpen: the walk is over and the snapshot is sent to the new connection
OnOpenEnd ==
    /\ tpc = "reading"
    /\ tpc' = "idle"
    /\ UNCHANGED <<bookVars, commandQueue, running, joinable, onTrade, onBookUpdate, cpc,
                   wpc, cmdVars, tickets, afterStop>>

ServerNext ==
    \/ EngineNext
    \/ OnOpenBegin
    \/ OnOpenEnd

ServerSpec == Init /\ [][ServerNext]_vars

\* ---------------------------------------------------------------- properties of the book
\* C1: whenever both sides hold levels, the highest bid price is strictly below the
\* lowest ask price.
NotCrossed ==
    \A bp \in DOMAIN bids : \A ap \in DOMAIN asks : bp < ap

\* both sides are populated and the spread is a single tick
NotCrossedWitness ==
    /\ DOMAIN bids # {} /\ DOMAIN asks # {}
    /\ \E bp \in DOMAIN bids : \E ap \in DOMAIN asks : ap = bp + 1
    /\ Cardinality(DOMAIN orderLookup) = MaxId

\* the incoming orders addOrder admits: those whose id is not in the Order Index
Admitted == {o \in Incoming : o.id \notin DOMAIN orderLookup}

\* what is left of an incoming order once its trades are taken out
Residual(o, trades) == o.initialQuantity - SumQuantity(trades)

\* C2: an incoming order consumes the opposite side as a prefix of its priority order
\* (best price first, FIFO inside a level): every maker before the last one traded is
\* consumed whole, a maker left partly filled stays at the head, an order with a
\* residual has exhausted every crossable maker, and the residual goes to the tail of
\* its own level.
PriceTimePriority ==
    \A o \in Admitted :
        LET r == addOrder(o, bids, asks, orderLookup)
            opp == Opposite(o, bids, asks)
            oppAfter == Opposite(o, r.bids, r.asks)
            n == Len(r.trades)
            residual == Residual(o, r.trades)
            own == OwnBook(o.side, bids, asks)
            ownAfter == OwnBook(o.side, r.bids, r.asks)
        IN  /\ n <= Len(opp)
            /\ \A k \in 1..n :
                  /\ r.trades[k].makerOrderId = opp[k].id
                  /\ Crosses(o, opp[k].price)
                  /\ r.trades[k].quantity <= opp[k].remainingQuantity
            /\ \A k \in 1..(n - 1) : r.trades[k].quantity = opp[k].remainingQuantity
            /\ oppAfter =
                  (IF n >= 1 /\ r.trades[n].quantity < opp[n].remainingQuantity
                   THEN <<[opp[n] EXCEPT !.remainingQuantity = @ - r.trades[n].quantity]>>
                   ELSE <<>>)
                  \o SubSeq(opp, n + 1, Len(opp))
            /\ residual > 0 =>
                  /\ n = Len(opp) \/ ~Crosses(o, opp[n + 1].price)
                  /\ n >= 1 => r.trades[n].quantity = opp[n].remainingQuantity
                  /\ LevelOrders(ownAfter, o.price)
                        = Append(LevelOrders(own, o.price),
                                 [o EXCEPT !.remainingQuantity = residual])
            /\ residual = 0 => ownAfter = own

\* an ask level whose head was partly filled earlier and has a later maker behind it,
\* and a Buy that trades with both makers of that level
PriceTimePriorityWitness ==
    \E p \in DOMAIN asks :
        /\ Len(asks[p].orders) = 2
        /\ asks[p].orders[1].remainingQuantity < asks[p].orders[1].initialQuantity
        /\ \E o \in Admitted :
              /\ o.side = "Buy"
              /\ Len(addOrder(o, bids, asks, orderLookup).trades) = 2

\* C3: every trade carries the price of the level that held its maker, the maker's id
\* and the incoming order's id; the prices of one incoming order's trades never
\* decrease for a Buy and never increase for a Sell.
TradeAttribution ==
    \A o \in Admitted :
        LET trades == addOrder(o, bids, asks, orderLookup).trades
            oppBook == OppBook(o.side, bids, asks)
        IN  /\ \A k \in 1..Len(trades) :
                  /\ trades[k].takerOrderId = o.id
                  /\ \E p \in DOMAIN oppBook :
                        /\ trades[k].price = p
                        /\ oppBook[p].price = p
                        /\ \E i \in 1..Len(oppBook[p].orders) :
                              oppBook[p].orders[i].id = trades[k].makerOrderId
            /\ \A k \in 1..(Len(trades) - 1) :
                  IF o.side = "Buy" THEN trades[k].price <= trades[k + 1].price
                  ELSE trades[k].price >= trades[k + 1].price

\* a Sell that sweeps two bid levels: its trades are at two prices, the first of them
\* different from the price the Sell quoted
TradeAttributionWitness ==
    \E o \in Admitted :
        LET trades == addOrder(o, bids, asks, orderLookup).trades
        IN  /\ o.side = "Sell"
            /\ Len(trades) = 2
            /\ trades[1].price > trades[2].price
            /\ trades[1].price # o.price

\* C4: for an admitted order of quantity q > 0 every trade has quantity > 0, the trade
\* quantities add up to q minus the residual and to the decrease of remaining quantity
\* on the opposite side; a residual > 0 rests once, on the order's side and price,
\* with exactly that remaining quantity, and a residual of 0 does not rest.
TradeConservation ==
    \A o \in Admitted :
        o.initialQuantity > 0 =>
            LET r == addOrder(o, bids, asks, orderLookup)
                total == SumQuantity(r.trades)
                decrease == SumRemaining(Opposite(o, bids, asks))
                            - SumRemaining(Opposite(o, r.bids, r.asks))
                places == Places(o.id, r.bids, r.asks)
            IN  /\ \A k \in 1..Len(r.trades) : r.trades[k].quantity > 0
                /\ total <= o.initialQuantity
                /\ total = decrease
                /\ IF total < o.initialQuantity
                   THEN /\ Cardinality(places) = 1
                        /\ \A pl \in places :
                              /\ pl.side = o.side
                              /\ pl.price = o.price
                              /\ pl.order.remainingQuantity = o.initialQuantity - total
                   ELSE places = {}

\* an incoming order that is partly filled by a maker and rests with the remainder
TradeConservationWitness ==
    \E o \in Admitted :
        LET r == addOrder(o, bids, asks, orderLookup)
        IN  /\ r.trades # <<>>
            /\ SumQuantity(r.trades) < o.initialQuantity
            /\ Places(o.id, r.bids, r.asks) # {}

\* C5: the Order Index and the resting orders correspond one to one: the index keys
\* are the resting ids, every indexed id is held in exactly one place, and its
\* locator names the side and price of the level that holds it.
IndexConsistent ==
    /\ DOMAIN orderLookup = RestingIds(bids, asks)
    /\ \A id \in DOMAIN orderLookup :
          LET places == Places(id, bids, asks)
          IN  /\ Cardinality(places) = 1
              /\ \A pl \in places :
                    /\ orderLookup[id].side = pl.side
                    /\ orderLookup[id].price = pl.price
                    /\ OwnBook(pl.side, bids, asks)[pl.price].price = pl.price
                    /\ pl.order.side = pl.side
                    /\ pl.order.price = pl.price

\* the index holds an order on each side, one of them behind another order of its level
IndexConsistentWitness ==
    /\ \E id \in DOMAIN orderLookup : orderLookup[id].side = "Buy"
    /\ \E id \in DOMAIN orderLookup :
          /\ orderLookup[id].side = "Sell"
          /\ \E pl \in Places(id, bids, asks) : pl.pos = 2

\* the volume getBids / getAsks must report for a side: for every price that holds
\* resting orders, the sum of their remaining quantities
Reported(infos) == {<<infos[i].price, infos[i].quantity>> : i \in 1..Len(infos)}
RestingVolume(book) == {<<p, SumRemaining(book[p].orders)>> : p \in DOMAIN book}

\* C6: the totalVolume of every level is the sum of the remaining quantities of the
\* orders in its FIFO, and getBids / getAsks report exactly that volume per price.
VolumeConsistent ==
    /\ \A p \in DOMAIN bids : bids[p].totalVolume = SumRemaining(bids[p].orders)
    /\ \A p \in DOMAIN asks : asks[p].totalVolume = SumRemaining(asks[p].orders)
    /\ Len(getBids) = Cardinality(DOMAIN bids)
    /\ Len(getAsks) = Cardinality(DOMAIN asks)
    /\ Reported(getBids) = RestingVolume(bids)
    /\ Reported(getAsks) = RestingVolume(asks)

\* a level of two orders, the first of them partly filled, after a third order traded
VolumeConsistentWitness ==
    \E p \in DOMAIN asks :
        /\ Len(asks[p].orders) = 2
        /\ asks[p].orders[1].remainingQuantity < asks[p].orders[1].initialQuantity
        /\ asks[p].totalVolume >= 2

\* C7: no resting order has remaining quantity 0 and no level has an empty FIFO.
NoFilledOrEmpty ==
    \A book \in {bids, asks} :
        \A p \in DOMAIN book :
            /\ book[p].orders # <<>>
            /\ \A i \in 1..Len(book[p].orders) : book[p].orders[i].remainingQuantity > 0

\* a book from which one call takes the last order of a level: a match that fills the
\* only ask of a level, and a cancel of the only bid of a level
NoFilledOrEmptyWitness ==
    /\ \E o \in Admitted :
          /\ o.side = "Buy"
          /\ DOMAIN addOrder(o, bids, asks, orderLookup).asks # DOMAIN asks
    /\ \E id \in OrderIds :
          DOMAIN cancelOrder(id, bids, asks, orderLookup).bids # DOMAIN bids

\* C8: addOrder with an id that is in the Order Index returns no trades and leaves
\* bids, asks and the Order Index as they were.
DuplicateAddNoOp ==
    \A o \in Incoming :
        o.id \in DOMAIN orderLookup =>
            LET r == addOrder(o, bids, asks, orderLookup)
            IN  /\ r.trades = <<>>
                /\ r.bids = bids
                /\ r.asks = asks
                /\ r.lookup = orderLookup

\* a resting bid whose id comes again on a Buy priced at or above the best ask
DuplicateAddNoOpWitness ==
    \E o \in Incoming :
        /\ o.id \in DOMAIN orderLookup
        /\ orderLookup[o.id].side = "Buy"
        /\ o.side = "Buy"
        /\ o.initialQuantity > 0
        /\ \E ap \in DOMAIN asks : o.price >= ap

\* a FIFO without the orders of one id
Without(orders, id) == SelectSeq(orders, LAMBDA x : x.id # id)

\* C10: cancelOrder(id) returns true exactly when an order with that id rests; it then
\* removes that order and its index entry, debits the level by the order's remaining
\* quantity, drops the level if it became empty, and leaves every other order, its
\* place in its FIFO, and the opposite side as they were.
CancelContract ==
    \A id \in OrderIds :
        LET r == cancelOrder(id, bids, asks, orderLookup)
            places == Places(id, bids, asks)
        IN  /\ r.ret = (places # {})
            /\ \A pl \in places :
                  LET own == OwnBook(pl.side, bids, asks)
                      ownAfter == OwnBook(pl.side, r.bids, r.asks)
                      level == own[pl.price]
                  IN  /\ OppBook(pl.side, r.bids, r.asks) = OppBook(pl.side, bids, asks)
                      /\ DOMAIN r.lookup = DOMAIN orderLookup \ {id}
                      /\ \A k \in DOMAIN r.lookup : r.lookup[k] = orderLookup[k]
                      /\ DOMAIN ownAfter \cup {pl.price} = DOMAIN own
                      /\ \A p \in DOMAIN own \ {pl.price} : ownAfter[p] = own[p]
                      /\ IF Len(level.orders) = 1
                         THEN pl.price \notin DOMAIN ownAfter
                         ELSE /\ pl.price \in DOMAIN ownAfter
                              /\ ownAfter[pl.price] =
                                    [price |-> level.price,
                                     totalVolume |-> level.totalVolume
                                                     - pl.order.remainingQuantity,
                                     orders |-> Without(level.orders, id)]

\* a successful cancel of the second of two bids of a level, the first of them partly
\* filled: the order ahead of it must keep its place and its remaining quantity
CancelContractWitness ==
    \E id \in DOMAIN orderLookup :
        \E pl \in Places(id, bids, asks) :
            /\ pl.side = "Buy"
            /\ pl.pos = 2
            /\ bids[pl.price].orders[1].remainingQuantity
                  < bids[pl.price].orders[1].initialQuantity
            /\ cancelOrder(id, bids, asks, orderLookup).ret

\* a call that changed nothing and returned no trades
Untouched(r, b, a, lookup) ==
    /\ r.bids = b
    /\ r.asks = a
    /\ r.lookup = lookup

\* cancelOrder(id) on the book an addOrder left
CancelAfter(r, id) == cancelOrder(id, r.bids, r.asks, r.lookup)

AddAfter(r, o) == addOrder(o, r.bids, r.asks, r.lookup)

\* the call that left r2 on the book r returned no trades and changed nothing
NoOpAfter(r2, r) == r2.trades = <<>> /\ Untouched(r2, r.bids, r.asks, r.lookup)

\* C20: an id that addOrder has admitted once is rejected ever after: a second addOrder
\* with the id of an order just admitted is a no-op whether that order rested or was
\* filled on arrival, and so is an addOrder with the id of an order just cancelled.
RejectsUsedIds ==
    /\ \A o \in Admitted :
          o.initialQuantity > 0 =>
              \A o2 \in Incoming :
                  o2.id = o.id =>
                      NoOpAfter(AddAfter(addOrder(o, bids, asks, orderLookup), o2),
                                addOrder(o, bids, asks, orderLookup))
    /\ \A o2 \in Incoming :
          o2.id \in DOMAIN orderLookup =>
              NoOpAfter(AddAfter(cancelOrder(o2.id, bids, asks, orderLookup), o2),
                        cancelOrder(o2.id, bids, asks, orderLookup))

\* ---------------------------------------------------------------- properties of the engine
\* C9: the worker fires no callback for an Add command whose id is in the Order Index
\* when it is processed.
DuplicateAddSilent == dupAdd => fired = <<>>

\* the worker is done with the command it took: the book call is made and every
\* callback it led to has returned
Finished == wpc \in {"loop", "wait"} /\ applications = 1

\* C11: cancelOrder of an id that does not rest returns false and leaves bids, asks and
\* the Order Index as they were; a Cancel command of such an id sets no bookChanged flag
\* and no callback is invoked for it.
CancelMissSilent ==
    /\ \A id \in OrderIds :
          id \notin RestingIds(bids, asks) =>
              LET r == cancelOrder(id, bids, asks, orderLookup)
              IN  /\ ~r.ret
                  /\ r.bids = bids
                  /\ r.asks = asks
                  /\ r.lookup = orderLookup
    /\ missCancel =>
          /\ ~bookChanged
          /\ ~touched
          /\ fired = <<>>
          /\ owed = {}
          /\ wpc \in {"loop", "wait"}

\* both callbacks are registered, another order rests, and the worker is done with a
\* Cancel of an id that did not rest
CancelMissSilentWitness ==
    /\ missCancel
    /\ Finished
    /\ onTrade /\ onBookUpdate
    /\ RestingIds(bids, asks) # {}

\* C13: the command the worker takes is always the one that entered the queue before
\* every other waiting command, whatever producers pushed in the meantime; the book call
\* is made at most once for it; and every callback the previous command led to has
\* returned before the next command is taken and applied.
FifoApplication ==
    /\ Len(tickets) = Len(commandQueue)
    /\ \A i \in 1..Len(tickets) : tickets[i] = i
    /\ wpc \in {"apply", "onTrade", "onBookUpdate"} => cmdTicket = 1
    /\ applications <= 1
    /\ wpc = "apply" => applications = 0
    /\ wpc \in {"wait", "apply"} => owed = {}

\* the worker is about to apply a command while two different commands that producers
\* pushed after it wait in the queue
FifoApplicationWitness ==
    /\ wpc = "apply"
    /\ cmdTicket = 1
    /\ Len(commandQueue) = 2
    /\ commandQueue[1].type = "Add"
    /\ commandQueue[2].type = "Cancel"

\* C14: while the transport thread is inside the getBids() / getAsks() walk of
\* Server::onOpen, the worker is not at a call of addOrder or cancelOrder on the book.
BookOwnedByWorker == tpc = "reading" => wpc # "apply"

\* how many times a callback was invoked for the command being processed
Invocations(name) == Cardinality({i \in 1..Len(fired) : fired[i] = name})

\* C15: with a book-update callback registered, a command whose book call changed
\* bids, asks or the Order Index has had the callback invoked exactly once by the time
\* the worker is done with it (so before the next command is taken); the invocation
\* is the last callback of the command, after its trade callback if it had one; and no
\* command has the callback invoked twice.
BookUpdateOnce ==
    /\ Invocations("book") <= 1
    /\ (touched /\ onBookUpdate /\ wpc \in {"onTrade", "onBookUpdate"}) => "book" \in owed
    /\ wpc = "onBookUpdate" => "trade" \notin owed
    /\ (Finished /\ touched /\ onBookUpdate) =>
          /\ Invocations("book") = 1
          /\ fired[Len(fired)] = "book"

\* the worker is done with an Add that traded and changed the book: the trade callback
\* was invoked for it, then the book-update callback
BookUpdateOnceWitness ==
    /\ Finished
    /\ touched
    /\ cmd.type = "Add"
    /\ fired = <<"trade", "book">>

DrainedAtExit ==
    /\ (wpc \in {"loop", "wait", "done"} /\ cmd.type # "Stop") => applications = 1
    /\ cpc = "joining" =>
          \A i \in 1..Len(commandQueue) :
              commandQueue[i].type = "Stop" => Len(commandQueue) - i = afterStop
    /\ wpc = "done" =>
          /\ cmd.type = "Stop"
          /\ cmdTicket = 1
          /\ owed = {}
          /\ \A i \in 1..Len(commandQueue) : commandQueue[i].type # "Stop"
          /\ cpc = "joining" => Len(commandQueue) = afterStop

\* stop() has returned and the worker has left run()
StopReturned == cpc = "ready" /\ wpc = "done"

\* C17: stop() drains before it stops (DrainedAtExit holds in every state), and when the
\* worker takes every step it can and callbacks return, a stop() that posted its Stop
\* command returns with the worker out of run().
StopDrains == []DrainedAtExit /\ ((cpc = "joining") ~> StopReturned)

\* stop() waits in join(); the worker has applied a command that entered before the
\* Stop, has taken the Stop and left run(), and a command pushed after the Stop is
\* still in the queue
StopDrainsWitness ==
    /\ cpc = "joining"
    /\ wpc = "done"
    /\ cmd.type = "Stop"
    /\ afterStop >= 1
    /\ commandQueue # <<>>
    /\ RestingIds(bids, asks) # {}

\* a stop() has returned and start() has not been called since
Stopped == cpc = "ready" /\ wpc = "done"

\* C18: once a stop() has returned (and the engine has not been started again), the
\* running flag is false and no worker is joinable, so a further stop(), the
\* destructor's included, pushes no Stop command, does not go on to join, and changes
\* nothing in the engine or the book.
StopIdempotent ==
    Stopped =>
        /\ ~running
        /\ ~joinable
        /\ StopCall(commandQueue, running) = [commandQueue |-> commandQueue, cpc |-> "ready"]
        /\ ~ENABLED <<StopPost>>_vars

\* stop() has returned on an engine that applied commands and left one in its queue
StopIdempotentWitness ==
    /\ Stopped
    /\ RestingIds(bids, asks) # {}
    /\ commandQueue # <<>>

\* C19: once stop() has returned the engine stays stopped: whatever call follows, the
\* worker stays out of run() and the running flag stays false.
StoppedIsTerminal == [][(Stopped /\ ~running) => (Stopped /\ ~running)']_vars

====
